---- MODULE Spec2Model ----
(***************************************************************************)
(* A model of autobus' core: the non-recursive tree walker                 *)
(* (TraversalTree), the dependency edges of a target (TargetBase /         *)
(* Dependency), the staleness decision (TargetBase.is_rebuild_needed and   *)
(* the helpers of autobus.path) and the staged build (TargetBase.build).   *)
(* Each part has its own specification; the variables of the other parts   *)
(* are held at their initial values.                                       *)
(***************************************************************************)
EXTENDS Integers, Sequences, FiniteSets, TLC

VARIABLES
    \* ---- TraversalTree ----
    children,     \* node -> the list stored in (or produced by) its children field
    accessor,     \* how the children field is exposed (see AccessorKinds)
    tpc,          \* "idle" | "loop" | "done" | "raised"
    op,           \* "none" | "get_leaves" | "find"
    findNode,     \* the argument of find
    stack,        \* the explicit frame stack of the running traversal
    leaves,       \* the local set `leaves` of get_leaves
    found,        \* the value returned by find
    terr,         \* the exception that left the traversal, or "none"
    children0,    \* history: `children` as it was when the running call started
    \* ---- TargetBase / Dependency: the dependency edges ----
    dependencyEntries,  \* target -> the elements of its _dependencies list
    dependees,          \* target -> its dependees list
    passed,             \* history: target -> the (target, selection function) pairs passed so far
    lastRead,           \* the outcome of the last property read
    \* ---- TargetBase.is_rebuild_needed ----
    inputFiles,         \* the target's input_files, each file's state on disk
    outputFiles,        \* the target's output_files
    rebuildResult,      \* "unset", or what is_rebuild_needed returned
    \* ---- TargetBase.build ----
    stages,             \* target -> its stages list
    building,           \* the target whose build() is running
    force,              \* the argument of build
    stale,              \* what is_rebuild_needed() would return for `building`
    bpc,                \* "idle" | "running" | "executing" | "done" | "raised"
    stageIdx,           \* position of the outer loop of build
    genIdx,             \* position of the inner loop of build
    log,                \* history: the execute() calls, returns and raises, in order
    buildError          \* the exception that left build(), or "none"

treeVars == <<children, accessor, tpc, op, findNode, stack, leaves, found, terr, children0>>
depsVars == <<dependencyEntries, dependees, passed, lastRead>>
rebuildVars == <<inputFiles, outputFiles, rebuildResult>>
buildVars == <<stages, building, force, stale, bpc, stageIdx, genIdx, log, buildError>>
notTree == <<depsVars, rebuildVars, buildVars>>
notDeps == <<treeVars, rebuildVars, buildVars>>
notRebuild == <<treeVars, depsVars, buildVars>>
notBuild == <<treeVars, depsVars, rebuildVars>>

-----------------------------------------------------------------------------
(* Bounds of the model *)

NumNodes == 3
MaxEdges == 3
MaxStack == 5
NumTargets == 2
MaxTargetsPerCall == 2
MaxCalls == 2
MaxFiles == 2
MaxMtime == 2
NumGenerators == 2
MaxPlanSize == 4

-----------------------------------------------------------------------------
(* Generic helpers *)

Last(s) == s[Len(s)]
Front(s) == SubSeq(s, 1, Len(s) - 1)
Range(s) == {s[i] : i \in 1..Len(s)}

-----------------------------------------------------------------------------
(* TraversalTree: src/base/__init__.py, lines 9-51 *)

Root == 0
Nodes == 1..NumNodes
AllNodes == 0..NumNodes
\* A node object that is no child of any node of the graph.
Absent == NumNodes + 1

\* "attribute": every node stores its children list in the field.
\* "callable": every node but the root exposes a zero-argument callable that
\*             returns a fresh list on each call; the root stores a list.
\* "callable_root": every node, the root included, exposes the callable.
AccessorKinds == {"attribute", "callable", "callable_root"}

IsCallable(n) == accessor = "callable_root" \/ (accessor = "callable" /\ n # Root)

EmptyGraph == [n \in AllNodes |-> <<>>]

\* A graph is given by its child edges <<parent, child>>, listed parent by
\* parent; the children list of a node holds its children in that order.
EdgeLists == UNION { [1..k -> AllNodes \X Nodes] : k \in 0..MaxEdges }
ByParent(es) == \A i \in 1..(Len(es) - 1) : es[i][1] <= es[i + 1][1]

GraphOf(es) ==
    [n \in AllNodes |->
        LET From(e) == e[1] = n
            mine == SelectSeq(es, From)
        IN  [i \in 1..Len(mine) |-> mine[i][2]]]

\* A frame of the stack is a reference to a list object: the list stored on
\* node `ref` (ref >= 0), a private fresh list (ref = -1, its elements in
\* `items`), or the bound method itself (ref = -2).
StoredFrame(n) == [ref |-> n, items |-> <<>>]
FreshFrame(s) == [ref |-> -1, items |-> s]
MethodFrame == [ref |-> -2, items |-> <<>>]

\* getattr(self.root, self.children_field): the attribute itself, never called.
RootFrame == IF IsCallable(Root) THEN MethodFrame ELSE StoredFrame(Root)

\* The elements of the list a frame refers to, given the stored lists `ch`.
FrameItems(f, ch) == IF f.ref >= 0 THEN ch[f.ref] ELSE f.items

TreeInit ==
    /\ \E es \in EdgeLists : ByParent(es) /\ children = GraphOf(es)
    /\ accessor \in AccessorKinds
    /\ tpc = "idle"
    /\ op = "none"
    /\ findNode = Root
    /\ stack = <<>>
    /\ leaves = {}
    /\ found = FALSE
    /\ terr = "none"
    /\ children0 = children

\* get_leaves, lines 18-19.
StartGetLeaves ==
    /\ tpc = "idle"
    /\ tpc' = "loop"
    /\ op' = "get_leaves"
    /\ stack' = <<RootFrame>>
    /\ leaves' = {}
    /\ children0' = children
    /\ UNCHANGED <<children, accessor, findNode, found, terr, notTree>>

\* A variant of find whose traversal starts at the root itself.
StartFindAtRoot(node) ==
    /\ tpc = "idle"
    /\ tpc' = "loop"
    /\ op' = "find"
    /\ findNode' = node
    /\ stack' = <<FreshFrame(<<Root>>)>>
    /\ children0' = children
    /\ UNCHANGED <<children, accessor, leaves, found, terr, notTree>>

\* find, line 37.
StartFind(node) ==
    /\ tpc = "idle"
    /\ tpc' = "loop"
    /\ op' = "find"
    /\ findNode' = node
    /\ stack' = <<RootFrame>>
    /\ children0' = children
    /\ UNCHANGED <<children, accessor, leaves, found, terr, notTree>>

\* stack[-1].pop() on something that cannot be popped: a bound method has no
\* pop (AttributeError), an empty list raises IndexError.
PopError(top) ==
    IF top.ref = -2 THEN "AttributeError"
    ELSE IF FrameItems(top, children) = <<>> THEN "IndexError"
    ELSE "none"

\* The stored lists after stack[-1].pop().
ChildrenAfterPop(top) ==
    IF top.ref >= 0 THEN [children EXCEPT ![top.ref] = Front(@)] ELSE children

\* The stack after stack[-1].pop() and `if not stack[-1]: stack.pop()`.
StackAfterPop(top) ==
    LET popped == IF top.ref >= 0 THEN top ELSE FreshFrame(Front(top.items))
    IN  IF FrameItems(popped, ChildrenAfterPop(top)) = <<>>
        THEN Front(stack)
        ELSE [stack EXCEPT ![Len(stack)] = popped]

\* getattr(current, field), called when callable: the list object it yields.
ChildrenFrame(current, ch) ==
    IF IsCallable(current) THEN FreshFrame(ch[current]) ELSE StoredFrame(current)

\* One iteration of the loop of get_leaves, lines 21-31.
GetLeavesStep ==
    /\ tpc = "loop" /\ op = "get_leaves"
    /\ stack # <<>>
    /\ LET top == Last(stack) IN
       IF PopError(top) # "none"
       THEN /\ tpc' = "raised"
            /\ terr' = PopError(top)
            /\ UNCHANGED <<children, accessor, op, findNode, stack, leaves, found, children0, notTree>>
       ELSE LET current == Last(FrameItems(top, children))
                ch == ChildrenAfterPop(top)
                st == StackAfterPop(top)
                kids == ChildrenFrame(current, ch)
            IN  /\ children' = ch
                /\ IF FrameItems(kids, ch) = <<>>
                   THEN /\ leaves' = leaves \cup {current}
                        /\ stack' = st
                   ELSE /\ Len(st) < MaxStack
                        /\ leaves' = leaves
                        /\ stack' = Append(st, kids)
                /\ UNCHANGED <<accessor, tpc, op, findNode, found, terr, children0, notTree>>

\* The loop of get_leaves ends, lines 21 and 33.
GetLeavesReturn ==
    /\ tpc = "loop" /\ op = "get_leaves"
    /\ stack = <<>>
    /\ tpc' = "done"
    /\ UNCHANGED <<children, accessor, op, findNode, stack, leaves, found, terr, children0, notTree>>

\* One iteration of the loop of find, lines 39-49.
FindStep ==
    /\ tpc = "loop" /\ op = "find"
    /\ stack # <<>>
    /\ LET top == Last(stack) IN
       IF PopError(top) # "none"
       THEN /\ tpc' = "raised"
            /\ terr' = PopError(top)
            /\ UNCHANGED <<children, accessor, op, findNode, stack, leaves, found, children0, notTree>>
       ELSE LET current == Last(FrameItems(top, children))
                ch == ChildrenAfterPop(top)
                st == StackAfterPop(top)
                kids == ChildrenFrame(current, ch)
            IN  /\ children' = ch
                /\ IF current = findNode
                   THEN /\ tpc' = "done"
                        /\ found' = TRUE
                        /\ stack' = IF top.ref >= 0 THEN stack
                                    ELSE [stack EXCEPT ![Len(stack)] = FreshFrame(Front(top.items))]
                   ELSE /\ tpc' = tpc
                        /\ found' = found
                        /\ IF FrameItems(kids, ch) # <<>>
                           THEN /\ Len(st) < MaxStack
                                /\ stack' = Append(st, kids)
                           ELSE stack' = st
                /\ UNCHANGED <<accessor, op, findNode, leaves, terr, children0, notTree>>

\* The loop of find ends, lines 39 and 51.
FindReturn ==
    /\ tpc = "loop" /\ op = "find"
    /\ stack = <<>>
    /\ tpc' = "done"
    /\ found' = FALSE
    /\ UNCHANGED <<children, accessor, op, findNode, stack, leaves, terr, children0, notTree>>

\* The caller takes the result (or the exception) and may call again, on the
\* same nodes as the call left them.
TreeCallEnds ==
    /\ tpc \in {"done", "raised"}
    /\ tpc' = "idle"
    /\ op' = "none"
    /\ findNode' = Root
    /\ stack' = <<>>
    /\ leaves' = {}
    /\ found' = FALSE
    /\ terr' = "none"
    /\ children0' = children
    /\ UNCHANGED <<children, accessor, notTree>>

TreeNext ==
    \/ StartGetLeaves
    \/ \E node \in AllNodes \cup {Absent} : StartFind(node)
    \/ GetLeavesStep
    \/ GetLeavesReturn
    \/ FindStep
    \/ FindReturn
    \/ TreeCallEnds


\* The tree walker at rest, on a graph without edges.
TreeIdle ==
    /\ children = EmptyGraph
    /\ accessor = "attribute"
    /\ tpc = "idle"
    /\ op = "none"
    /\ findNode = Root
    /\ stack = <<>>
    /\ leaves = {}
    /\ found = FALSE
    /\ terr = "none"
    /\ children0 = children

-----------------------------------------------------------------------------
(* TargetBase and Dependency, the dependency edges:                        *)
(* src/base/__init__.py, lines 161-166, 184-193 and 223-234                *)

Targets == 1..NumTargets

\* A selection function is None or a function of the edge.
SelectionFunctions == {"None", "accept", "reject", "only_target_1"}

\* selection_function(edge), for a function that is not None.
ApplySelection(f, edge) ==
    CASE f = "accept" -> TRUE
      [] f = "reject" -> FALSE
      [] f = "only_target_1" -> edge.target = 1

TargetLists == UNION { [1..n -> Targets] : n \in 0..MaxTargetsPerCall }

\* Dependency.__init__, lines 224-227 (the append to target.dependees is in
\* add_dependencies below).
Dependency(target, selection_function) ==
    [kind |-> "Dependency", target |-> target, selection_function |-> selection_function]

\* A Python list object holding `items`.
ListObject(items) == [kind |-> "list", items |-> items]

\* Dependency.from_list, lines 229-231: a list with one Dependency per target.
FromList(targets, selection_function) ==
    ListObject([i \in 1..Len(targets) |-> Dependency(targets[i], selection_function)])

\* Dependency.selected, lines 233-234: a method.
Selected(dep) ==
    IF dep.selection_function # "None"
    THEN ApplySelection(dep.selection_function, dep)
    ELSE TRUE

\* The outcome of evaluating an expression: a value, or an exception.
Value(v) == [err |-> "none", value |-> v]
Raised(e) == [err |-> e, value |-> <<>>]

\* x.target: an attribute of a Dependency; a list has none.
HasTargetAttr(x) == x.kind = "Dependency"
\* x.selected: on a Dependency the bound method, which is truthy and is not
\* called; a list has no such attribute.
HasSelectedAttr(x) == x.kind = "Dependency"
SelectedAttrTruthy(x) == TRUE

\* TargetBase.dependencies, lines 188-190.
Dependencies(t) ==
    LET ds == dependencyEntries[t] IN
    IF \E i \in 1..Len(ds) : ~HasTargetAttr(ds[i])
    THEN Raised("AttributeError")
    ELSE Value([i \in 1..Len(ds) |-> ds[i].target])

\* TargetBase.selected_dependencies, lines 184-186.
SelectedDependencies(t) ==
    LET ds == dependencyEntries[t]
        Keep(x) == SelectedAttrTruthy(x)
    IN  IF \E i \in 1..Len(ds) : ~HasSelectedAttr(ds[i])
        THEN Raised("AttributeError")
        ELSE Value([i \in 1..Len(SelectSeq(ds, Keep)) |-> SelectSeq(ds, Keep)[i].target])

NoRead == [prop |-> "none", of |-> 0, err |-> "none", value |-> <<>>]

\* TargetBase.__init__, lines 162-166.
DepsInit ==
    /\ dependencyEntries = [t \in Targets |-> <<>>]
    /\ dependees = [t \in Targets |-> <<>>]
    /\ passed = [t \in Targets |-> <<>>]
    /\ lastRead = NoRead

DepsIdle == DepsInit

RECURSIVE AppendEach(_, _, _)
\* Each Dependency constructed appends the dependee to its target's dependees.
AppendEach(d, targets, dependee) ==
    IF targets = <<>> THEN d
    ELSE AppendEach([d EXCEPT ![Head(targets)] = Append(@, dependee)], Tail(targets), dependee)

RECURSIVE SumLen(_, _)
SumLen(f, S) ==
    IF S = {} THEN 0
    ELSE LET x == CHOOSE y \in S : TRUE IN Len(f[x]) + SumLen(f, S \ {x})

\* TargetBase.add_dependencies, lines 192-193, with Dependency.from_list.
AddDependencies(t, targets, selection_function) ==
    /\ SumLen(dependencyEntries, Targets) < MaxCalls
    /\ dependencyEntries' = [dependencyEntries EXCEPT ![t] = Append(@, FromList(targets, selection_function))]
    /\ dependees' = AppendEach(dependees, targets, t)
    /\ passed' = [passed EXCEPT ![t] = @ \o [i \in 1..Len(targets) |->
                        [target |-> targets[i], selection_function |-> selection_function]]]
    /\ UNCHANGED <<lastRead, notDeps>>

\* Reading T.dependencies.
ReadDependencies(t) ==
    /\ lastRead' = [prop |-> "dependencies", of |-> t,
                    err |-> Dependencies(t).err, value |-> Dependencies(t).value]
    /\ UNCHANGED <<dependencyEntries, dependees, passed, notDeps>>

\* Reading T.selected_dependencies.
ReadSelectedDependencies(t) ==
    /\ lastRead' = [prop |-> "selected_dependencies", of |-> t,
                    err |-> SelectedDependencies(t).err, value |-> SelectedDependencies(t).value]
    /\ UNCHANGED <<dependencyEntries, dependees, passed, notDeps>>

DepsNext ==
    \/ \E t \in Targets, targets \in TargetLists, f \in SelectionFunctions :
          AddDependencies(t, targets, f)
    \/ \E t \in Targets : ReadDependencies(t)
    \/ \E t \in Targets : ReadSelectedDependencies(t)

-----------------------------------------------------------------------------
(* The staleness decision: src/base/__init__.py, lines 195-216, and        *)
(* src/path/__init__.py, lines 24-29 and 94-114                            *)

\* A file on disk: missing, or present with a modification time.
MissingFile == [exists |-> FALSE, mtime |-> -1]
PresentFile(m) == [exists |-> TRUE, mtime |-> m]
FileStates == {MissingFile} \cup {PresentFile(m) : m \in 0..MaxMtime}
FileLists == UNION { [1..n -> FileStates] : n \in 0..MaxFiles }

RECURSIVE CheckFilesExist(_)
\* check_files_exist, lines 94-98.
CheckFilesExist(file_list) ==
    IF file_list = <<>> THEN TRUE
    ELSE IF ~Head(file_list).exists THEN FALSE
    ELSE CheckFilesExist(Tail(file_list))

\* File.mtime, lines 27-29: getmtime raises OSError for a missing file.
Mtime(file) == IF file.exists THEN Value(file.mtime) ELSE Raised("OSError")

\* The loop variable `result` of the two mtime helpers: None, or a time.
None == [none |-> TRUE, time |-> 0]
Some(m) == [none |-> FALSE, time |-> m]
\* `result or 0.0`: None and 0 are both falsy.
OrZero(result) == IF result.none \/ result.time = 0 THEN 0 ELSE result.time

RECURSIVE LeastLoop(_, _)
LeastLoop(file_list, result) ==
    IF file_list = <<>> THEN Value(OrZero(result))
    ELSE LET mtime == Mtime(Head(file_list)) IN
         IF mtime.err # "none" THEN mtime
         ELSE IF result.none \/ mtime.value < result.time
              THEN LeastLoop(Tail(file_list), Some(mtime.value))
              ELSE LeastLoop(Tail(file_list), result)

\* get_least_mtime, lines 100-106.
GetLeastMtime(file_list) == LeastLoop(file_list, None)

RECURSIVE MostLoop(_, _)
MostLoop(file_list, result) ==
    IF file_list = <<>> THEN Value(OrZero(result))
    ELSE LET mtime == Mtime(Head(file_list)) IN
         IF mtime.err # "none" THEN mtime
         ELSE IF result.none \/ mtime.value > result.time
              THEN MostLoop(Tail(file_list), Some(mtime.value))
              ELSE MostLoop(Tail(file_list), result)

\* get_most_mtime, lines 108-114.
GetMostMtime(file_list) == MostLoop(file_list, None)

\* TargetBase.output_files_exist and input_files_exist, lines 195-199.
OutputFilesExist == CheckFilesExist(outputFiles)
InputFilesExist == CheckFilesExist(inputFiles)

\* A variant that returns what the property's name says: the most mtime.
InputFilesMostMtimeAsNamed == GetMostMtime(inputFiles)

\* TargetBase.input_files_most_mtime, lines 201-203: the least mtime.
InputFilesMostMtime == GetLeastMtime(inputFiles)
\* TargetBase.output_files_least_mtime, lines 205-207: the most mtime.
OutputFilesLeastMtime == GetMostMtime(outputFiles)

\* TargetBase.is_rebuild_needed, lines 209-216.
IsRebuildNeeded ==
    IF outputFiles = <<>> \/ ~OutputFilesExist THEN "True"
    ELSE IF inputFiles = <<>> \/ ~InputFilesExist THEN "True"
    ELSE IF InputFilesMostMtime.err # "none" THEN InputFilesMostMtime.err
    ELSE IF OutputFilesLeastMtime.err # "none" THEN OutputFilesLeastMtime.err
    ELSE IF InputFilesMostMtime.value >= OutputFilesLeastMtime.value THEN "True"
    ELSE "False"

RebuildInit ==
    /\ inputFiles \in FileLists
    /\ outputFiles \in FileLists
    /\ rebuildResult = "unset"

RebuildIdle ==
    /\ inputFiles = <<>>
    /\ outputFiles = <<>>
    /\ rebuildResult = "unset"

\* A call of is_rebuild_needed.
CallIsRebuildNeeded ==
    /\ rebuildResult = "unset"
    /\ rebuildResult' = IsRebuildNeeded
    /\ UNCHANGED <<inputFiles, outputFiles, notRebuild>>

\* File.touch, src/path/__init__.py lines 31-32, on an input file: the file
\* exists afterwards, with the time of the touch.
TouchInput(i, now) ==
    /\ i \in 1..Len(inputFiles)
    /\ inputFiles' = [inputFiles EXCEPT ![i] = PresentFile(now)]
    /\ rebuildResult' = "unset"
    /\ UNCHANGED <<outputFiles, notRebuild>>

\* File.touch on an output file.
TouchOutput(i, now) ==
    /\ i \in 1..Len(outputFiles)
    /\ outputFiles' = [outputFiles EXCEPT ![i] = PresentFile(now)]
    /\ rebuildResult' = "unset"
    /\ UNCHANGED <<inputFiles, notRebuild>>

RebuildNext ==
    \/ CallIsRebuildNeeded
    \/ \E i \in 1..MaxFiles, now \in 0..MaxMtime : TouchInput(i, now)
    \/ \E i \in 1..MaxFiles, now \in 0..MaxMtime : TouchOutput(i, now)

-----------------------------------------------------------------------------
(* TargetBase.build: src/base/__init__.py, lines 168-174, and              *)
(* GeneratorBase.execute, lines 75-86                                      *)

\* Two targets, the first depending on the second: for the first the other
\* is a dependency, for the second it is a dependee.
BuildTargets == {1, 2}
DependenciesOf(t) == IF t = 1 THEN {2} ELSE {}

\* The generators a target's stages are made of: <<owner, number>>.
GeneratorsOf(t) == {<<t, k>> : k \in 1..NumGenerators}
NoGenerator == <<0, 0>>

\* An entry of `stages`: a single generator, or a list of generators.
SingleStage(g) == [isList |-> FALSE, gen |-> g, gens |-> <<>>]
ListStage(gs) == [isList |-> TRUE, gen |-> NoGenerator, gens |-> gs]

NoStages == [t \in BuildTargets |-> <<>>]

\* The stages lists are given by the steps that assemble them, target by
\* target: append a stage of a single generator, append an empty list stage,
\* or put one more generator in the last stage, which must be a list.
PlanSteps ==
    { [t |-> t, kind |-> k, gen |-> g] :
        t \in BuildTargets, k \in {"single", "extend"}, g \in 1..NumGenerators }
    \cup { [t |-> t, kind |-> "list", gen |-> 0] : t \in BuildTargets }
PlanStepLists == UNION { [1..k -> PlanSteps] : k \in 0..MaxPlanSize }

WellFormedSteps(steps) ==
    /\ \A i \in 1..(Len(steps) - 1) : steps[i].t <= steps[i + 1].t
    /\ \A i \in 1..Len(steps) :
          steps[i].kind = "extend" =>
             /\ i > 1
             /\ steps[i - 1].t = steps[i].t
             /\ steps[i - 1].kind \in {"list", "extend"}

RECURSIVE StagesOf(_, _)
StagesOf(st, steps) ==
    IF steps = <<>> THEN st
    ELSE LET s == Head(steps)
             g == <<s.t, s.gen>>
             next == CASE s.kind = "single" -> [st EXCEPT ![s.t] = Append(@, SingleStage(g))]
                       [] s.kind = "list" -> [st EXCEPT ![s.t] = Append(@, ListStage(<<>>))]
                       [] s.kind = "extend" ->
                            [st EXCEPT ![s.t][Len(st[s.t])] = ListStage(Append(@.gens, g))]
         IN  StagesOf(next, Tail(steps))

\* What execute() may raise (subprocess.run: the command is not found, or,
\* with check=True passed at construction, it exits non-zero).
ExecuteErrors == {"FileNotFoundError", "CalledProcessError"}

BuildIdle ==
    /\ stages = NoStages
    /\ building = 0
    /\ force = FALSE
    /\ stale = FALSE
    /\ bpc = "idle"
    /\ stageIdx = 0
    /\ genIdx = 0
    /\ log = <<>>
    /\ buildError = "none"

BuildInit ==
    /\ \E steps \in PlanStepLists : WellFormedSteps(steps) /\ stages = StagesOf(NoStages, steps)
    /\ building = 0
    /\ force = FALSE
    /\ stale = FALSE
    /\ bpc = "idle"
    /\ stageIdx = 0
    /\ genIdx = 0
    /\ log = <<>>
    /\ buildError = "none"

\* Lines 170-171: a stage that is not a list becomes a one-element list.
NormalizeStage(stage) == IF ~stage.isList THEN <<stage.gen>> ELSE stage.gens

\* A variant of build that consults force and is_rebuild_needed and returns
\* at once when the target is fresh and the build is not forced.
StartBuildUnlessFresh(t, f, isStale) ==
    /\ bpc = "idle"
    /\ building' = t
    /\ force' = f
    /\ stale' = isStale
    /\ bpc' = IF f \/ isStale THEN "running" ELSE "done"
    /\ stageIdx' = 1
    /\ genIdx' = 1
    /\ UNCHANGED <<stages, log, buildError, notBuild>>

\* The caller calls T.build(force); `isStale` is what T.is_rebuild_needed()
\* would return at that moment. Line 168.
StartBuild(t, f, isStale) ==
    /\ bpc = "idle"
    /\ building' = t
    /\ force' = f
    /\ stale' = isStale
    /\ bpc' = "running"
    /\ stageIdx' = 1
    /\ genIdx' = 1
    /\ UNCHANGED <<stages, log, buildError, notBuild>>

CurrentStage == NormalizeStage(stages[building][stageIdx])

\* Line 174: generator.execute() is called.
ExecuteCall ==
    /\ bpc = "running"
    /\ stageIdx <= Len(stages[building])
    /\ genIdx <= Len(CurrentStage)
    /\ bpc' = "executing"
    /\ log' = Append(log, [ev |-> "call", gen |-> CurrentStage[genIdx], err |-> "none"])
    /\ UNCHANGED <<stages, building, force, stale, stageIdx, genIdx, buildError, notBuild>>

\* execute() returns; the inner loop moves on. Lines 173-174.
ExecuteReturn ==
    /\ bpc = "executing"
    /\ bpc' = "running"
    /\ genIdx' = genIdx + 1
    /\ log' = Append(log, [ev |-> "return", gen |-> CurrentStage[genIdx], err |-> "none"])
    /\ UNCHANGED <<stages, building, force, stale, stageIdx, buildError, notBuild>>

\* A variant of build that catches the exception and goes on with the next
\* generator.
ExecuteRaiseSwallowed(e) ==
    /\ bpc = "executing"
    /\ bpc' = "running"
    /\ genIdx' = genIdx + 1
    /\ log' = Append(log, [ev |-> "raise", gen |-> CurrentStage[genIdx], err |-> e])
    /\ UNCHANGED <<stages, building, force, stale, stageIdx, buildError, notBuild>>

\* execute() raises; nothing in build catches it. Line 174.
ExecuteRaise(e) ==
    /\ bpc = "executing"
    /\ bpc' = "raised"
    /\ buildError' = e
    /\ log' = Append(log, [ev |-> "raise", gen |-> CurrentStage[genIdx], err |-> e])
    /\ UNCHANGED <<stages, building, force, stale, stageIdx, genIdx, notBuild>>

\* The inner loop is exhausted; the outer loop takes the next stage. Line 169.
NextStage ==
    /\ bpc = "running"
    /\ stageIdx <= Len(stages[building])
    /\ genIdx > Len(CurrentStage)
    /\ stageIdx' = stageIdx + 1
    /\ genIdx' = 1
    /\ UNCHANGED <<stages, building, force, stale, bpc, log, buildError, notBuild>>

\* The outer loop is exhausted; build returns None.
BuildReturn ==
    /\ bpc = "running"
    /\ stageIdx > Len(stages[building])
    /\ bpc' = "done"
    /\ UNCHANGED <<stages, building, force, stale, stageIdx, genIdx, log, buildError, notBuild>>

BuildNext ==
    \/ \E t \in BuildTargets, f \in BOOLEAN, isStale \in BOOLEAN : StartBuild(t, f, isStale)
    \/ ExecuteCall
    \/ ExecuteReturn
    \/ \E e \in ExecuteErrors : ExecuteRaise(e)
    \/ NextStage
    \/ BuildReturn

vars == <<treeVars, depsVars, rebuildVars, buildVars>>

\* Each specification runs one part and holds the others at rest.
InitTree == TreeInit /\ DepsIdle /\ RebuildIdle /\ BuildIdle
InitDeps == TreeIdle /\ DepsInit /\ RebuildIdle /\ BuildIdle
InitRebuild == TreeIdle /\ DepsIdle /\ RebuildInit /\ BuildIdle
InitBuild == TreeIdle /\ DepsIdle /\ RebuildIdle /\ BuildInit

SpecTree == InitTree /\ [][TreeNext]_vars
SpecDeps == InitDeps /\ [][DepsNext]_vars
SpecRebuild == InitRebuild /\ [][RebuildNext]_vars
SpecBuild == InitBuild /\ [][BuildNext]_vars

-----------------------------------------------------------------------------
(* Properties of the dependency edges *)

\* The targets passed so far to add_dependencies of t, in order.
PassedTargets(t) == [i \in 1..Len(passed[t]) |-> passed[t][i].target]

\* Whether the edge made for a passed pair is selected, by Dependency.selected.
PassedSelected(p) == Selected(Dependency(p.target, p.selection_function))

\* The number of Dependency edges held directly in t's edge list.
EdgesHeld(t) == Cardinality({i \in 1..Len(dependencyEntries[t]) : dependencyEntries[t][i].kind = "Dependency"})

\* C1: after any add_dependencies calls on T, T.dependencies evaluates
\* without error to the targets passed, in the order they were added, and
\* T's edge list holds one Dependency edge per target passed.
C1_DependenciesInOrder ==
    lastRead.prop = "dependencies" =>
       /\ lastRead.err = "none"
       /\ lastRead.value = PassedTargets(lastRead.of)
       /\ \A t \in Targets :
             /\ Len(dependencyEntries[t]) = Len(passed[t])
             /\ EdgesHeld(t) = Len(passed[t])

\* C2: T.selected_dependencies is exactly the targets of the edges whose
\* selection function returns true for the edge, in order; an edge without a
\* selection function is selected, so that without any the property equals
\* T.dependencies.
C2_SelectedDependenciesFiltered ==
    lastRead.prop = "selected_dependencies" =>
       LET t == lastRead.of
           kept == SelectSeq(passed[t], PassedSelected)
       IN  /\ lastRead.err = "none"
           /\ lastRead.value = [i \in 1..Len(kept) |-> kept[i].target]
           /\ (\A i \in 1..Len(passed[t]) : passed[t][i].selection_function = "None")
                 => lastRead.value = PassedTargets(t)

-----------------------------------------------------------------------------
(* Properties of the staleness decision *)

Mtimes(file_list) == {file_list[i].mtime : i \in 1..Len(file_list)}
MinOf(S) == CHOOSE x \in S : \A y \in S : x <= y
MaxOf(S) == CHOOSE x \in S : \A y \in S : x >= y
AllExist(file_list) == \A i \in 1..Len(file_list) : file_list[i].exists

\* The condition under which a rebuild is to be reported.
RebuildExpected ==
    \/ outputFiles = <<>>
    \/ ~AllExist(outputFiles)
    \/ inputFiles = <<>>
    \/ ~AllExist(inputFiles)
    \/ MinOf(Mtimes(inputFiles)) >= MaxOf(Mtimes(outputFiles))

\* C3: is_rebuild_needed returns true iff output_files is empty, or some
\* output is missing, or input_files is empty, or some input is missing, or
\* min(input mtimes) >= max(output mtimes); when all files exist and both
\* lists are non-empty that is: every input is at least as new as every output.
C3_RebuildIffStale ==
    rebuildResult # "unset" =>
       /\ rebuildResult \in {"True", "False"}
       /\ (rebuildResult = "True") <=> RebuildExpected
       /\ (inputFiles # <<>> /\ outputFiles # <<>> /\ AllExist(inputFiles) /\ AllExist(outputFiles))
            => ((rebuildResult = "True") <=>
                  \A i \in 1..Len(inputFiles), o \in 1..Len(outputFiles) :
                      inputFiles[i].mtime >= outputFiles[o].mtime)

\* C3's case: all files exist, one input is newer than the output and another
\* is older, and no rebuild is reported.
C3_Witness ==
    /\ rebuildResult = "False"
    /\ Len(inputFiles) = 2 /\ Len(outputFiles) = 1
    /\ \E i \in 1..2 : inputFiles[i].mtime > outputFiles[1].mtime

-----------------------------------------------------------------------------
(* Properties of the tree walker *)

Successors(g, S) == UNION {Range(g[n]) : n \in S}

RECURSIVE Closure(_, _)
Closure(g, S) ==
    LET T == S \cup Successors(g, S) IN IF T = S THEN S ELSE Closure(g, T)

\* The nodes reachable from n by one or more child edges.
Descendants(g, n) == Closure(g, Range(g[n]))
Reachable(g) == Descendants(g, Root)
CyclicFromRoot(g) == \E n \in Reachable(g) : n \in Descendants(g, n)
ChildlessReachable(g) == {n \in Reachable(g) : g[n] = <<>>}

\* C4: on an acyclic graph (tree or DAG) whose children are stored lists,
\* get_leaves returns exactly the childless nodes reachable from the root.
C4_LeavesAreChildlessReachable ==
    (op = "get_leaves" /\ tpc = "done" /\ accessor = "attribute" /\ ~CyclicFromRoot(children0))
        => leaves = ChildlessReachable(children0)

\* C5: when the root's children list is empty, get_leaves returns the empty
\* set and find returns false, both without raising.
C5_EmptyRootCompletes ==
    (tpc # "idle" /\ accessor # "callable_root" /\ children0[Root] = <<>>)
        => /\ terr = "none" /\ tpc # "raised"
           /\ tpc = "done" => /\ op = "get_leaves" => leaves = {}
                              /\ op = "find" => found = FALSE

\* C6: get_leaves and find leave every node's children as they were.
C6_ChildrenUntouched ==
    tpc = "done" => children = children0

\* C9: on an acyclic graph with a non-empty root children list, find(n)
\* completes without error and returns true iff n is reachable from the root
\* by one or more child edges (so false for the root and for an absent node).
C9_FindIffReachable ==
    (op = "find" /\ accessor # "callable_root" /\ children0[Root] # <<>>
        /\ ~CyclicFromRoot(children0))
        => /\ terr = "none" /\ tpc # "raised"
           /\ Len(stack) < MaxStack
           /\ tpc = "done" => (found <=> findNode \in Reachable(children0))

\* C9's case: find returned true for a node that is below the root's own
\* children, in a graph where a node is reachable on two paths.
C9_Witness ==
    /\ op = "find" /\ tpc = "done" /\ found
    /\ ~CyclicFromRoot(children0)
    /\ findNode \notin Range(children0[Root])
    /\ \E n \in Nodes : Cardinality({m \in AllNodes : n \in Range(children0[m])}) >= 2

\* C10: when the graph reachable from the root has a cycle, get_leaves, and
\* find for a node that is not in the graph, never return.
C10_CycleNeverReturns ==
    (CyclicFromRoot(children0) /\ (op = "get_leaves" \/ (op = "find" /\ findNode = Absent)))
        => tpc # "done"

-----------------------------------------------------------------------------
(* Properties of build *)

RECURSIVE Flatten(_)
\* The in-order flattening of a stages list.
Flatten(plan) ==
    IF plan = <<>> THEN <<>>
    ELSE (IF Head(plan).isList THEN Head(plan).gens ELSE <<Head(plan).gen>>) \o Flatten(Tail(plan))

IsCall(e) == e.ev = "call"
\* The generators whose execute() was called, in order.
Called == LET cs == SelectSeq(log, IsCall) IN [i \in 1..Len(cs) |-> cs[i].gen]
IsPrefix(s, t) == Len(s) <= Len(t) /\ s = SubSeq(t, 1, Len(s))

\* C7: whatever force, is_rebuild_needed and the dependencies are, a build of
\* T in which no action fails calls execute() exactly along the in-order
\* flattening of T.stages: each call returns before the next one is made, and
\* no action of another target is executed.
C7_BuildRunsOwnStagesInOrder ==
    /\ \A i \in 1..Len(log) :
          /\ log[i].gen \in GeneratorsOf(building)
          /\ (log[i].ev = "call" /\ i < Len(log))
                => (log[i + 1].ev # "call" /\ log[i + 1].gen = log[i].gen)
          /\ log[i].ev # "call" => (i > 1 /\ log[i - 1].ev = "call")
    /\ bpc # "idle" => IsPrefix(Called, Flatten(stages[building]))
    /\ bpc = "done" => Called = Flatten(stages[building])

\* C7's case: a build that was neither forced nor stale ran a list stage and
\* a single-generator stage to the end, while the target's dependency has
\* generators of its own.
C7_Witness ==
    /\ bpc = "done" /\ ~force /\ ~stale
    /\ \E i, j \in 1..Len(stages[building]) :
          /\ stages[building][i].isList /\ stages[building][i].gens # <<>>
          /\ ~stages[building][j].isList
    /\ Len(Called) >= 2
    /\ \E t \in DependenciesOf(building) : Flatten(stages[t]) # <<>>

\* C8: a failing execute() ends the build: nothing is executed after it, no
\* action before it was run twice, and the exception reaches the caller of
\* build() as raised.
C8_FailureStopsBuild ==
    /\ \A i \in 1..Len(log) :
          log[i].ev = "raise" =>
             /\ i = Len(log)
             /\ bpc = "raised"
             /\ buildError = log[i].err
    /\ bpc = "raised" => /\ log # <<>> /\ Last(log).ev = "raise"
                         /\ IsPrefix(Called, Flatten(stages[building]))
    /\ bpc \in {"idle", "running", "executing", "done"} => buildError = "none"

\* C8's case: the first action of a stage of two failed, with the second
\* action of the stage and a later stage left unexecuted.
C8_Witness ==
    /\ bpc = "raised"
    /\ stageIdx = 1 /\ genIdx = 1
    /\ Len(NormalizeStage(stages[building][1])) = 2
    /\ Len(stages[building]) >= 2
    /\ Len(Flatten(stages[building])) >= 3
    /\ Len(Called) = 1

====
